---- MODULE Spec2Model ----
(***************************************************************************)
(* State-machine model of text2speech.py: the click command main(), a      *)
(* single pass from argument validation to the success report or the      *)
(* abort.  Strings are sequences of one-character strings, paths are       *)
(* sequences of path segments and messages are sequences of tokens, so     *)
(* that trimming, path resolution and the substring test are computed.     *)
(***************************************************************************)
EXTENDS Naturals, Sequences, FiniteSets

VARIABLES
    args,           \* the parameters click passes to main() (never reassigned here)
    env,            \* the environment: --file's content, bundled voice, mps backend
    text,           \* local `text` (reassigned at line 89)
    device,         \* local `device` (reassigned at line 101)
    tts,            \* local `tts`: the model object and the device it is bound to
    inits,          \* every TTS(model_name=...).to(device) evaluation, in order
    calls,          \* every tts.tts_to_file(...) invocation, in order
    output_path,    \* local `output_path`
    temp_wav_path,  \* local `temp_wav_path`
    exc,            \* the exception being handled or propagating
    pc,             \* position in main()
    status,         \* how the process ended
    stdout,         \* lines written by click.echo(...)
    stderr          \* lines written by click.echo(..., err=True)

vars == <<args, env, text, device, tts, inits, calls, output_path,
          temp_wav_path, exc, pc, status, stdout, stderr>>

-----------------------------------------------------------------------------
(* Bounds and input domains *)

MaxTextLen == 2

PreviewLen == 50

Whitespace == {" "}

Chars == Whitespace \cup {"a"}

\* Python's None; no text or path below equals it.
None == <<"None">>

Texts == UNION {[1..k -> Chars] : k \in 0..MaxTextLen}

InputFile == <<"input.txt">>

Outputs == {<<"output.mp3">>, <<"/", "tmp", "greeting.mp3">>}

SpeakerWavs == {None, <<"reference_voice.wav">>}

Languages == {"zh-cn", "en", "es", "fr", "de", "it", "pt", "pl",
              "tr", "ru", "nl", "cs", "ar", "ja", "hu", "ko"}

\* The language codes the runs are started with.
RunLanguages == {"zh-cn", "en"}

Devices == {"auto", "cpu", "mps", "cuda"}

Cwd == <<"/", "home", "user">>

ScriptDir == <<"/", "opt", "tts">>

NoExc == [type |-> "none", msg |-> <<>>]

\* Failures tts_to_file can raise: an exception class and its text.
SynthErrorTypes == {"RuntimeError", "NotImplementedError", "ValueError"}

SynthErrorMsgs == {<<"attention_mask", "is", "required">>, <<"out", "of", "memory">>}

SynthErrors == [type : SynthErrorTypes, msg : SynthErrorMsgs]

\* Failures of TTS(...).to(device).
InitErrors == {[type |-> "OSError", msg |-> <<"model", "download", "failed">>],
               [type |-> "AssertionError", msg |-> <<"Torch", "not", "compiled", "with", "CUDA", "enabled">>]}

ReadError == [type |-> "UnicodeDecodeError", msg |-> <<"invalid", "start", "byte">>]

-----------------------------------------------------------------------------
(* Pure helpers *)

\* Python truthiness of an optional string: None and "" are both false.
Truthy(v) == v # None /\ v # <<>>

SetMin(S) == CHOOSE x \in S : \A y \in S : x <= y

SetMax(S) == CHOOSE x \in S : \A y \in S : y <= x

\* str.strip(): drop leading and trailing whitespace.
Strip_Identity(s) == s

Strip(s) ==
    LET keep == {i \in 1..Len(s) : s[i] \notin Whitespace}
    IN  IF keep = {} THEN <<>> ELSE SubSeq(s, SetMin(keep), SetMax(keep))

\* text[:50] + '...' if len(text) > 50 else text
Preview(s) ==
    IF Len(s) > PreviewLen THEN SubSeq(s, 1, PreviewLen) \o <<".", ".", ".">> ELSE s

\* Path(p).resolve(): an absolute path is kept, a relative one is joined to the cwd.
Resolve(p) == IF Len(p) > 0 /\ p[1] = "/" THEN p ELSE Cwd \o p

\* Path(__file__).parent / "voices" / "11_0_audio_20250922_000846_0_intro.mp3"
DefaultVoicePath == ScriptDir \o <<"voices", "11_0_audio_20250922_000846_0_intro.mp3">>

\* `tok in str(e)`, at the granularity of message tokens.
Contains(msg, tok) == \E i \in 1..Len(msg) : msg[i] = tok

\* `except RuntimeError` also catches subclasses of RuntimeError.
IsRuntimeError(t) == t \in {"RuntimeError", "NotImplementedError"}

UsageError(m) == [type |-> "UsageError", msg |-> m]

MissingInputMsg == <<"Please provide text as an argument or use --file to read from a file">>

ConflictMsg == <<"Please provide either text argument OR --file option, not both">>

EmptyFileMsg == <<"The input file is empty">>

DefaultVoiceMsg == <<"Default voice file not found:">> \o DefaultVoicePath

\* Lines 79-83: the exception the input validation raises, NoExc when it passes.
ValidationError_NoConflictCheck(t, f) ==
    IF ~Truthy(t) /\ ~Truthy(f) THEN UsageError(MissingInputMsg) ELSE NoExc

ValidationError(t, f) ==
    IF ~Truthy(t) /\ ~Truthy(f) THEN UsageError(MissingInputMsg)
    ELSE IF Truthy(t) /\ Truthy(f) THEN UsageError(ConflictMsg)
    ELSE NoExc

\* Lines 100-101: the device the model is bound to.
ResolvedDevice_Probe(d, mps) == IF d = "auto" THEN (IF mps THEN "mps" ELSE "cpu") ELSE d

ResolvedDevice(d, mps) == IF d = "auto" THEN "cpu" ELSE d

\* Line 150: the condition of the fallback to cpu.
ShouldFallback_AnyDevice(e, d) == Contains(e.msg, "attention_mask")

ShouldFallback(e, d) == Contains(e.msg, "attention_mask") /\ d = "mps"

\* An exception raised while `handled` is being handled propagates instead of it.
RaisedInHandler_Original(handled, raised) == handled

RaisedInHandler(handled, raised) == raised

\* Line 165: f"Error: {str(e)}"
ErrorLine_NoText(e) == <<"Error:">>

ErrorLine(e) == <<"Error:">> \o e.msg

\* Line 162
SavedLine(p) == <<"Audio saved to:">> \o p

\* The keyword arguments of one tts_to_file call, with the device tts is bound to.
SynthCall(voice, result) ==
    [text |-> text, file_path |-> output_path, speaker_wav |-> voice,
     language |-> args.language, device |-> tts.device,
     ok |-> (result = NoExc), err |-> result]

-----------------------------------------------------------------------------
(* Initial states: one invocation of the command in one environment *)

Init ==
    /\ \E t \in Texts \cup {None}, f \in {None, InputFile}, o \in Outputs,
          s \in SpeakerWavs, l \in RunLanguages, d \in Devices :
          args = [text |-> t, file |-> f, output |-> o, speaker_wav |-> s,
                  language |-> l, device |-> d]
    /\ \E r \in BOOLEAN, c \in Texts, v \in BOOLEAN, m \in BOOLEAN :
          /\ (args.file = None) => (r = FALSE /\ c = <<>>)
          /\ (~r) => (c = <<>>)
          /\ env = [file_readable |-> r, file_data |-> c,
                    default_voice_exists |-> v, mps_available |-> m]
    /\ text = args.text
    /\ device = args.device
    /\ tts = [loaded |-> FALSE, device |-> "none"]
    /\ inits = <<>>
    /\ calls = <<>>
    /\ output_path = None
    /\ temp_wav_path = None
    /\ exc = NoExc
    /\ pc = "validate"
    /\ status = "running"
    /\ stdout = <<>>
    /\ stderr = <<>>

-----------------------------------------------------------------------------
(* Actions *)

\* Lines 79-83
Validate ==
    /\ pc = "validate"
    /\ LET e == ValidationError(text, args.file)
       IN  /\ exc' = e
           /\ pc' = IF e = NoExc THEN "acquire" ELSE "except"
    /\ UNCHANGED <<args, env, text, device, tts, inits, calls, output_path,
                   temp_wav_path, status, stdout, stderr>>

\* Lines 86-96
AcquireText ==
    /\ pc = "acquire"
    /\ IF Truthy(args.file)
       THEN LET reading == <<"Reading text from file:">> \o args.file
            IN  IF ~env.file_readable
                THEN /\ exc' = ReadError
                     /\ pc' = "except"
                     /\ stdout' = Append(stdout, reading)
                     /\ UNCHANGED text
                ELSE LET t == Strip(env.file_data)
                     IN  /\ text' = t
                         /\ IF ~Truthy(t)
                            THEN /\ exc' = UsageError(EmptyFileMsg)
                                 /\ pc' = "except"
                                 /\ stdout' = Append(stdout, reading)
                            ELSE /\ pc' = "resolve_device"
                                 /\ stdout' = stdout \o
                                        <<reading, <<"Text to convert:">> \o Preview(t)>>
                                 /\ UNCHANGED exc
       ELSE /\ pc' = "resolve_device"
            /\ stdout' = Append(stdout, <<"Text to convert:">> \o Preview(text))
            /\ UNCHANGED <<text, exc>>
    /\ UNCHANGED <<args, env, device, tts, inits, calls, output_path,
                   temp_wav_path, status, stderr>>

\* Lines 100-107
ResolveDevice ==
    /\ pc = "resolve_device"
    /\ device' = ResolvedDevice(device, env.mps_available)
    /\ stdout' = stdout \o
          (IF device = "auto"
           THEN <<<<"Using CPU (for compatibility with XTTS-v2)">>>> \o
                (IF env.mps_available
                 THEN <<<<"Note: MPS detected but using CPU due to current compatibility issues">>>>
                 ELSE <<>>)
           ELSE IF device = "mps"
           THEN <<<<"Warning: MPS may have compatibility issues with XTTS-v2">>,
                  <<"Consider using --device cpu if you encounter errors">>>>
           ELSE <<>>)
    /\ pc' = "init_model"
    /\ UNCHANGED <<args, env, text, tts, inits, calls, output_path,
                   temp_wav_path, exc, status, stderr>>

\* Lines 109-112
InitModel ==
    /\ pc = "init_model"
    /\ stdout' = Append(stdout, <<"Initializing XTTS-v2 model on", device>>)
    /\ \E r \in InitErrors \cup {NoExc} :
          /\ inits' = Append(inits, [device |-> device, ok |-> (r = NoExc)])
          /\ IF r = NoExc
             THEN /\ tts' = [loaded |-> TRUE, device |-> device]
                  /\ pc' = "resolve_voice"
                  /\ UNCHANGED exc
             ELSE /\ exc' = r
                  /\ pc' = "except"
                  /\ UNCHANGED tts
    /\ UNCHANGED <<args, env, text, device, calls, output_path,
                   temp_wav_path, status, stderr>>

\* Lines 114-121 and 128-138
ResolveVoice ==
    /\ pc = "resolve_voice"
    /\ output_path' = Resolve(args.output)
    /\ LET generating == <<"Generating speech with language:", args.language>>
       IN  IF Truthy(args.speaker_wav)
           THEN /\ stdout' = stdout \o
                      <<generating, <<"Using speaker reference:">> \o args.speaker_wav>>
                /\ pc' = "synth_speaker"
                /\ UNCHANGED <<temp_wav_path, exc>>
           ELSE /\ stdout' = stdout \o
                      <<generating,
                        <<"Using default voice (for consistent results, provide a reference with -s)">>>>
                /\ IF ~env.default_voice_exists
                   THEN /\ exc' = UsageError(DefaultVoiceMsg)
                        /\ pc' = "except"
                        /\ UNCHANGED temp_wav_path
                   ELSE /\ temp_wav_path' = DefaultVoicePath
                        /\ pc' = "synth_default"
                        /\ UNCHANGED exc
    /\ UNCHANGED <<args, env, text, device, tts, inits, calls, status, stderr>>

\* Lines 122-127: the call with the caller's reference voice, outside any inner try
SynthesizeSpeaker ==
    /\ pc = "synth_speaker"
    /\ \E r \in SynthErrors \cup {NoExc} :
          /\ calls' = Append(calls, SynthCall(args.speaker_wav, r))
          /\ exc' = r
          /\ pc' = IF r = NoExc THEN "report" ELSE "except"
    /\ UNCHANGED <<args, env, text, device, tts, inits, output_path,
                   temp_wav_path, status, stdout, stderr>>

\* Lines 141-148: the call with the default voice, inside try ... except RuntimeError
SynthesizeDefault ==
    /\ pc = "synth_default"
    /\ \E r \in SynthErrors \cup {NoExc} :
          /\ calls' = Append(calls, SynthCall(temp_wav_path, r))
          /\ exc' = r
          /\ pc' = IF r = NoExc THEN "report"
                   ELSE IF IsRuntimeError(r.type) THEN "handler"
                   ELSE "except"
    /\ UNCHANGED <<args, env, text, device, tts, inits, output_path,
                   temp_wav_path, status, stdout, stderr>>

\* The fallback written as a restart of the pass on cpu.
HandleRuntimeError_Restart ==
    /\ pc = "handler"
    /\ IF ShouldFallback(exc, device)
       THEN /\ stdout' = Append(stdout,
                   <<"MPS compatibility issue detected, falling back to CPU...">>)
            /\ device' = "cpu"
            /\ pc' = "init_model"
       ELSE /\ pc' = "except"
            /\ UNCHANGED <<stdout, device>>
    /\ UNCHANGED <<args, env, text, tts, inits, calls, output_path,
                   temp_wav_path, exc, status, stderr>>

\* Lines 148-152 and 159-160
HandleRuntimeError ==
    /\ pc = "handler"
    /\ IF ShouldFallback(exc, device)
       THEN /\ stdout' = Append(stdout,
                   <<"MPS compatibility issue detected, falling back to CPU...">>)
            /\ tts' = [tts EXCEPT !.device = "cpu"]
            /\ pc' = "retry"
       ELSE /\ pc' = "except"
            /\ UNCHANGED <<stdout, tts>>
    /\ UNCHANGED <<args, env, text, device, inits, calls, output_path,
                   temp_wav_path, exc, status, stderr>>

\* The retry written with the caller's speaker_wav instead of temp_wav_path.
Retry_CallerVoice ==
    /\ pc = "retry"
    /\ \E r \in SynthErrors \cup {NoExc} :
          /\ calls' = Append(calls, SynthCall(args.speaker_wav, r))
          /\ IF r = NoExc
             THEN /\ exc' = NoExc
                  /\ pc' = "report"
             ELSE /\ exc' = RaisedInHandler(exc, r)
                  /\ pc' = "except"
    /\ UNCHANGED <<args, env, text, device, tts, inits, output_path,
                   temp_wav_path, status, stdout, stderr>>

\* Lines 153-158
Retry ==
    /\ pc = "retry"
    /\ \E r \in SynthErrors \cup {NoExc} :
          /\ calls' = Append(calls, SynthCall(temp_wav_path, r))
          /\ IF r = NoExc
             THEN /\ exc' = NoExc
                  /\ pc' = "report"
             ELSE /\ exc' = RaisedInHandler(exc, r)
                  /\ pc' = "except"
    /\ UNCHANGED <<args, env, text, device, tts, inits, output_path,
                   temp_wav_path, status, stdout, stderr>>

\* Line 162
Report ==
    /\ pc = "report"
    /\ stdout' = Append(stdout, SavedLine(output_path))
    /\ status' = "success"
    /\ pc' = "done"
    /\ UNCHANGED <<args, env, text, device, tts, inits, calls, output_path,
                   temp_wav_path, exc, stderr>>

\* Lines 164-166
Abort ==
    /\ pc = "except"
    /\ stderr' = Append(stderr, ErrorLine(exc))
    /\ status' = "aborted"
    /\ pc' = "done"
    /\ UNCHANGED <<args, env, text, device, tts, inits, calls, output_path,
                   temp_wav_path, exc, stdout>>

Next ==
    \/ Validate
    \/ AcquireText
    \/ ResolveDevice
    \/ InitModel
    \/ ResolveVoice
    \/ SynthesizeSpeaker
    \/ SynthesizeDefault
    \/ HandleRuntimeError
    \/ Retry
    \/ Report
    \/ Abort

Spec == Init /\ [][Next]_vars

\* The process is single-threaded and synchronous: while a step remains it is taken.
FairSpec == Spec /\ WF_vars(Next)

-----------------------------------------------------------------------------
(* Properties *)

Done == pc = "done"

\* The arguments as the command line supplies them.
Supplied(v) == v # None

\* The position of each step in the pass of main().
Rank(p) ==
    CASE p = "validate" -> 1
      [] p = "acquire" -> 2
      [] p = "resolve_device" -> 3
      [] p = "init_model" -> 4
      [] p = "resolve_voice" -> 5
      [] p \in {"synth_speaker", "synth_default"} -> 6
      [] p = "handler" -> 7
      [] p = "retry" -> 8
      [] p \in {"report", "except"} -> 9
      [] p = "done" -> 10

FirstFailedWithIndicator ==
    /\ Len(calls) >= 1
    /\ ~calls[1].ok
    /\ IsRuntimeError(calls[1].err.type)
    /\ Contains(calls[1].err.msg, "attention_mask")

SameRequest(a, b) ==
    /\ a.text = b.text
    /\ a.file_path = b.file_path
    /\ a.speaker_wav = b.speaker_wav
    /\ a.language = b.language

\* C1: in a finished run whose resolved device is mps and whose first synthesis
\* call raised a runtime failure containing the attention-mask indicator, there
\* is exactly one more synthesis call, on cpu, with the same text, output path,
\* reference voice and language -- whichever way the reference voice was chosen.
C1_RetryWhateverTheVoice ==
    (Done /\ device = "mps" /\ FirstFailedWithIndicator)
        => /\ Len(calls) = 2
           /\ calls[2].device = "cpu"
           /\ SameRequest(calls[1], calls[2])

\* C2 as written: when not exactly one of the positional text and --file is
\* supplied, no model is initialized, no synthesis is called, and the run ends
\* aborted with a usage error.
C2_NotExactlyOneSupplied ==
    (Supplied(args.text) <=> Supplied(args.file))
        => /\ inits = <<>>
           /\ calls = <<>>
           /\ Done => (status = "aborted" /\ exc.type = "UsageError")

\* C2 amended: when not exactly one of the positional text and --file is
\* supplied non-empty (neither is, or both are), no model is initialized, no
\* synthesis is called, and the run ends aborted with a usage error.
C2_NotExactlyOneNonEmpty ==
    ((args.text \in {None, <<>>}) <=> (args.file \in {None, <<>>}))
        => /\ inits = <<>>
           /\ calls = <<>>
           /\ Done => /\ status = "aborted"
                      /\ exc.type = "UsageError"
                      /\ stderr = <<<<"Error:">> \o exc.msg>>
                      /\ exc.msg \in {MissingInputMsg, ConflictMsg}

C2_Witness ==
    /\ Done
    /\ args.text \notin {None, <<>>}
    /\ args.file # None
    /\ status = "aborted"
    /\ exc.msg = ConflictMsg

\* C3: synthesis is never invoked more than twice; a finished run that retried
\* reports success with the output path when the retry succeeded, and aborts
\* with the retry's failure text when the retry failed.
C3_NoRecoveryAfterRetry ==
    /\ Len(calls) <= 2
    /\ (Done /\ Len(calls) = 2)
        => IF calls[2].ok
           THEN /\ status = "success"
                /\ stdout[Len(stdout)] = <<"Audio saved to:">> \o Resolve(args.output)
                /\ stderr = <<>>
           ELSE /\ status = "aborted"
                /\ stderr = <<<<"Error:">> \o calls[2].err.msg>>

C3_Witness ==
    /\ Done
    /\ Len(calls) = 2
    /\ ~calls[2].ok
    /\ calls[2].err.msg # calls[1].err.msg
    /\ status = "aborted"

\* C4: a second synthesis call is made only when the resolved device is mps and
\* the first failure contains the attention-mask indicator; in every other
\* finished run whose first synthesis call failed, synthesis was called once and
\* the run aborted with the text of that failure.
C4_RetryOnlyOnMpsIndicator ==
    /\ Len(calls) >= 2
        => /\ device = "mps"
           /\ ~calls[1].ok
           /\ Contains(calls[1].err.msg, "attention_mask")
    /\ (/\ Done
        /\ Len(calls) >= 1
        /\ ~calls[1].ok
        /\ (device \in {"cpu", "cuda"} \/ ~Contains(calls[1].err.msg, "attention_mask")))
        => /\ Len(calls) = 1
           /\ status = "aborted"
           /\ stderr = <<<<"Error:">> \o calls[1].err.msg>>

C4_Witness ==
    /\ Done
    /\ Len(calls) = 1
    /\ args.speaker_wav = None
    /\ device = "cuda"
    /\ IsRuntimeError(calls[1].err.type)
    /\ Contains(calls[1].err.msg, "attention_mask")
    /\ status = "aborted"

\* C5: with --device auto the model is initialized on cpu whether or not mps is
\* available, and once the device is resolved it is cpu, mps or cuda, never auto.
C5_AutoResolvesToCpu ==
    /\ (Rank(pc) \in 4..8 \/ pc = "report" \/ Len(inits) >= 1)
        => /\ device \in {"cpu", "mps", "cuda"}
           /\ args.device = "auto" => device = "cpu"
    /\ \A i \in 1..Len(inits) :
          /\ inits[i].device \in {"cpu", "mps", "cuda"}
          /\ args.device = "auto" => inits[i].device = "cpu"
    /\ (args.device = "auto" /\ tts.loaded) => tts.device = "cpu"

C5_Witness ==
    /\ args.device = "auto"
    /\ env.mps_available
    /\ tts.loaded
    /\ Len(inits) = 1

AllWhitespace(s) == \A i \in 1..Len(s) : s[i] \in Whitespace

\* C6: a run given only --file, whose readable content is all whitespace, never
\* initializes the model nor calls synthesis and ends aborted with the
\* empty-file usage error; and every synthesis call gets a non-empty text.
C6_EmptyFileRejected ==
    /\ (/\ args.text = None
        /\ args.file # None
        /\ env.file_readable
        /\ AllWhitespace(env.file_data))
        => /\ inits = <<>>
           /\ calls = <<>>
           /\ Done => /\ status = "aborted"
                      /\ stderr = <<<<"Error:">> \o EmptyFileMsg>>
    /\ \A i \in 1..Len(calls) : calls[i].text \notin {None, <<>>}

C6_Witness ==
    /\ Done
    /\ args.text = None
    /\ args.file # None
    /\ env.file_readable
    /\ Len(env.file_data) > 0
    /\ AllWhitespace(env.file_data)
    /\ status = "aborted"

\* C7: when the run fails with the usage error for the missing bundled voice,
\* synthesis was never called and no model had been initialized: the error is
\* fail-fast validation.
C7_MissingVoiceFailsFast ==
    (exc = UsageError(DefaultVoiceMsg))
        => /\ calls = <<>>
           /\ inits = <<>>

\* C8: every synthesis call, first attempt or retry, passes the caller's
\* --speaker-wav when one was supplied and the bundled default voice's path
\* otherwise.
C8_ReferenceVoice ==
    \A i \in 1..Len(calls) :
        calls[i].speaker_wav =
            IF Supplied(args.speaker_wav)
            THEN args.speaker_wav
            ELSE ScriptDir \o <<"voices", "11_0_audio_20250922_000846_0_intro.mp3">>

C8_Witness ==
    /\ Len(calls) = 2
    /\ args.speaker_wav = None

\* A failure that the retry did not recover.
UnrecoveredFailure ==
    \/ \E i \in 1..Len(inits) : ~inits[i].ok
    \/ Len(calls) >= 1 /\ ~calls[Len(calls)].ok
    \/ ValidationError(args.text, args.file) # NoExc
    \/ Truthy(args.file) /\ ~Truthy(args.text) /\ ~env.file_readable
    \/ Truthy(args.file) /\ ~Truthy(args.text) /\ AllWhitespace(env.file_data)
    \/ ~Truthy(args.speaker_wav) /\ ~env.default_voice_exists /\ Len(inits) >= 1
    \/ exc # NoExc

\* C9: a finished run ended in exactly one of success (the absolute output path
\* is reported, nothing on stderr) and abort (one "Error: <text>" line carrying
\* the text of the failure); success only when the last synthesis call
\* succeeded, abort whenever a failure was not recovered.
C9_TwoOutcomes ==
    /\ ~Done => status = "running"
    /\ Done =>
        /\ status \in {"success", "aborted"}
        /\ status = "success" =>
              /\ Len(calls) >= 1
              /\ calls[Len(calls)].ok
              /\ stdout[Len(stdout)] = <<"Audio saved to:">> \o Resolve(args.output)
              /\ stdout[Len(stdout)][2] = "/"
              /\ stderr = <<>>
              /\ ~UnrecoveredFailure
        /\ status = "aborted" =>
              /\ exc # NoExc
              /\ stderr = <<<<"Error:">> \o exc.msg>>
              /\ Len(exc.msg) > 0
        /\ UnrecoveredFailure => status = "aborted"

C9_Witness ==
    /\ Done
    /\ status = "aborted"
    /\ Len(inits) = 1
    /\ ~inits[1].ok

\* One step of the pass: the position only moves forward, the model is
\* initialized at most once, the reference voice is resolved before synthesis is
\* first called, and a second synthesis call follows a failed first one.
LinearStep ==
    /\ Rank(pc') > Rank(pc)
    /\ Len(inits') <= 1
    /\ Len(calls') <= 2
    /\ Len(calls') >= 1 =>
          /\ Rank(pc') > 6
          /\ Len(inits') = 1
          /\ output_path' # None
          /\ (Supplied(args.speaker_wav) \/ temp_wav_path' # None)
    /\ Len(calls') = 2 => (Len(calls) >= 1 /\ ~calls'[1].ok)

\* C10: every run is one forward pass validate -> acquire text -> resolve device
\* -> resolve voice -> synthesize (at most one retry) -> report, no step is
\* revisited, and the run terminates.
C10_LinearPass == [][LinearStep]_vars /\ <>Done

C10_Witness ==
    /\ Done
    /\ Len(calls) = 2
    /\ Len(inits) = 1

====
